---------------------------- MODULE Spec2Model ----------------------------
(***************************************************************************)
(* State machines of the two browser widgets of aria-ai-chatbot:           *)
(*   - ScreenshotAnalyzer (src/static/js/screenshot_analyzer.js)           *)
(*   - VoiceAssistant     (src/unnamed/part_000)                           *)
(* Every handler, and every continuation after an `await` that runs code   *)
(* of the widget, is one action.  The platform (getDisplayMedia, fetch,    *)
(* SpeechRecognition, speechSynthesis, timers) is the environment: it      *)
(* chooses when a promise settles or an event fires, and with which value. *)
(* Purely presentational DOM (button classes of the voice panel, the       *)
(* waveform, the transcript area that mirrors this.conversation) is left   *)
(* out.                                                                    *)
(***************************************************************************)
EXTENDS Integers, Sequences, FiniteSets, TLC

(***************************************************************************)
(* Bounds of the model.                                                    *)
(***************************************************************************)
\* captureScreen() invocations in one page session
MaxCaptures == 2
\* distinct screen contents the platform can hand to a capture
NumImages == 2

\* final results that reach the chat endpoint in one page session
MaxChats == 2
\* results of one recognition session (event.results)
MaxResults == 2

Captures == 1..MaxCaptures
Chats == 1..MaxChats
Images == 1..NumImages

(***************************************************************************)
(* Strings of the source.                                                  *)
(***************************************************************************)
Undefined == "<undefined>"
AnalysisDefault == "Analysis complete!"
AnalysisFailedMsg == "Analysis failed"
AnalysisErrorDefault == "Failed to analyze screenshot. Please try again."
AlertUnsupported == "Screen capture is not supported in your browser."
AlertDenied == "Screen capture permission denied."
AlertFailed == "Failed to capture screenshot"

\* values of data.analysis in a response body the server can send
AnalysisFields == {Undefined, "", "analysis text"}
\* error.message of a rejected fetch() or response.json()
RejectMessages == {"", "Failed to fetch"}

(***************************************************************************)
(* Texts of the voice widget are sequences of tokens, " " being white      *)
(* space, so that trim() and join('') are computed, not assumed.           *)
(***************************************************************************)
UndefinedText == <<Undefined>>
ReplyDefault == <<"I understand. How can I help you further?">>
ErrorReply == <<"Sorry, I encountered an error. Please try again.">>
\* transcripts the platform reports for a final result: blank or not
FinalTexts == {<<" ">>, <<"hello">>}
\* transcripts the platform reports for an interim result
InterimTexts == {<<"hello">>}
\* values of data.response in a body the server can send
ResponseFields == {UndefinedText, <<"Hi there!">>}

VARIABLES
    \* ---- ScreenshotAnalyzer ----
    hasDisplayMedia,  \* navigator.mediaDevices.getDisplayMedia exists
    modalActive,      \* #screenshotModal carries class 'active'
    buttonAnalyzing,  \* #screenshotButton carries class 'analyzing'
    previewArea,      \* capture whose image #screenshotPreviewArea shows, 0 = empty
    resultArea,       \* content of #analysisResultArea
    capPc,            \* position of each captureScreen()/analyzeScreenshot() call
    capImage,         \* imageDataUrl of each capture, 0 = none
    capStream,        \* the MediaStream of each capture
    capReject,        \* name of the error the platform rejected the capture with
    capResp,          \* how the network answered the analysis request of each capture
    capPrev,          \* what the modal showed when the retake that started it was clicked
    nCaps,            \* captureScreen() calls so far
    posts,            \* POSTs issued to /api/analyze-screenshot, in order
    timers,           \* pending setTimeout callbacks of retakeScreenshot, in order
    alertShown,       \* message of the last alert()
    retryWindow,      \* a request has failed and the user has asked for no capture since
    \* ---- VoiceAssistant ----
    hasRecognition,   \* this.recognition is not null
    eagerSpeaking,    \* the platform reports synthesis.speaking for a queued utterance
    isListening,
    isSpeaking,
    recState,         \* the platform's recognition session
    results,          \* event.results of the running session
    statusClass,      \* #voiceStatus className
    statusText,       \* #voiceStatus textContent
    startBtnDisabled,
    stopBtnDisabled,
    conversation,     \* this.conversation
    chatPc,           \* position of each processVoiceCommand() call
    chatMessage,      \* body.message of each POST to /api/voice-chat
    chatResp,         \* what the network answered to each request
    chatReplies,      \* the 'ai' messages each call added
    chatSpoken,       \* the texts each call passed to speak()
    nChats,           \* requests issued so far
    synthQueue,       \* the utterance queue of speechSynthesis
    lastCmd,          \* the last of startListening() / stopListening() called
    voiceAlert        \* message of the last alert() of the voice widget

capVars == <<hasDisplayMedia, modalActive, buttonAnalyzing, previewArea, resultArea,
             capPc, capImage, capStream, capReject, capResp, capPrev, nCaps, posts, timers,
             alertShown, retryWindow>>

voiceVars == <<hasRecognition, eagerSpeaking, isListening, isSpeaking, recState, results,
               statusClass, statusText, startBtnDisabled, stopBtnDisabled, conversation,
               chatPc, chatMessage, chatResp, chatReplies, chatSpoken, nChats,
               synthQueue, lastCmd, voiceAlert>>

vars == <<capVars, voiceVars>>

EmptyResult == [kind |-> "empty", text |-> "", cap |-> 0]
NoPrev == [image |-> 0, result |-> EmptyResult, shown |-> FALSE]

CaptureInit ==
    /\ hasDisplayMedia \in BOOLEAN
    /\ modalActive = FALSE
    /\ buttonAnalyzing = FALSE
    /\ previewArea = 0
    /\ resultArea = EmptyResult
    /\ capPc = [c \in Captures |-> "unused"]
    /\ capImage = [c \in Captures |-> 0]
    /\ capStream = [c \in Captures |-> "none"]
    /\ capReject = [c \in Captures |-> "none"]
    /\ capResp = [c \in Captures |-> "none"]
    /\ capPrev = [c \in Captures |-> NoPrev]
    /\ nCaps = 0
    /\ posts = <<>>
    /\ timers = <<>>
    /\ alertShown = "none"
    /\ retryWindow = FALSE

(***************************************************************************)
(* ScreenshotAnalyzer                                                      *)
(***************************************************************************)
Spinner(c) == [kind |-> "spinner", text |-> "Analyzing screenshot with AI...", cap |-> c]

\* `a || b` of JavaScript on strings: the empty string and undefined are falsy
OrElse(a, b) == IF a = Undefined \/ a = "" THEN b ELSE a

\* captureScreen(), lines 194-204: up to the await of getDisplayMedia.
\* c is the fresh invocation, prev what the retake that scheduled it (if any) saw.
CaptureScreen(c, prev) ==
    /\ nCaps < MaxCaptures
    /\ c = nCaps + 1
    /\ nCaps' = c
    /\ capPrev' = [capPrev EXCEPT ![c] = prev]
    /\ IF ~hasDisplayMedia
       THEN /\ alertShown' = AlertUnsupported
            /\ capPc' = [capPc EXCEPT ![c] = "unsupported"]
       ELSE /\ capPc' = [capPc EXCEPT ![c] = "getDisplayMedia"]
            /\ UNCHANGED alertShown
    /\ UNCHANGED <<hasDisplayMedia, modalActive, buttonAnalyzing, previewArea, resultArea,
                   capImage, capStream, capReject, capResp, posts>>

\* click on #screenshotButton
ButtonClick ==
    /\ CaptureScreen(nCaps + 1, NoPrev)
    /\ UNCHANGED timers
    /\ retryWindow' = FALSE
    /\ UNCHANGED voiceVars

\* Ctrl + Shift + S
KeyboardShortcut ==
    /\ CaptureScreen(nCaps + 1, NoPrev)
    /\ UNCHANGED timers
    /\ retryWindow' = FALSE
    /\ UNCHANGED voiceVars

\* getDisplayMedia resolves with a stream; video.play(); await loadedmetadata
StreamGranted(c) ==
    /\ capPc[c] = "getDisplayMedia"
    /\ capPc' = [capPc EXCEPT ![c] = "loadedmetadata"]
    /\ capStream' = [capStream EXCEPT ![c] = "live"]
    /\ UNCHANGED <<hasDisplayMedia, modalActive, buttonAnalyzing, previewArea, resultArea,
                   capImage, capReject, capResp, capPrev, nCaps, posts, timers, alertShown>>
    /\ UNCHANGED retryWindow
    /\ UNCHANGED voiceVars

\* CaptureCatch comparing against the legacy error name: a denial is reported as
\* a generic failure
CaptureCatchLegacyName(c, errorName) ==
    /\ alertShown' = IF errorName = "PermissionDeniedError" THEN AlertDenied ELSE AlertFailed
    /\ capPc' = [capPc EXCEPT ![c] = IF errorName = "PermissionDeniedError" THEN "denied" ELSE "failed"]

\* the catch block of captureScreen, lines 225-232
CaptureCatch(c, errorName) ==
    /\ alertShown' = IF errorName = "NotAllowedError" THEN AlertDenied ELSE AlertFailed
    /\ capPc' = [capPc EXCEPT ![c] = IF errorName = "NotAllowedError" THEN "denied" ELSE "failed"]

\* getDisplayMedia rejects: the user declines the prompt (NotAllowedError) or the
\* platform fails otherwise
StreamRejected(c, errorName) ==
    /\ capPc[c] = "getDisplayMedia"
    /\ capReject' = [capReject EXCEPT ![c] = errorName]
    /\ CaptureCatch(c, errorName)
    /\ UNCHANGED <<hasDisplayMedia, modalActive, buttonAnalyzing, previewArea, resultArea,
                   capImage, capStream, capResp, capPrev, nCaps, posts, timers>>
    /\ UNCHANGED retryWindow
    /\ UNCHANGED voiceVars

\* analyzeScreenshot that skips the request while another analysis is busy
AnalyzeScreenshotBusyGuard(c, imageDataUrl) ==
    /\ modalActive' = TRUE
    /\ buttonAnalyzing' = TRUE
    /\ previewArea' = c
    /\ resultArea' = Spinner(c)
    /\ posts' = IF buttonAnalyzing THEN posts ELSE Append(posts, [cap |-> c, image |-> imageDataUrl])
    /\ capPc' = [capPc EXCEPT ![c] = IF buttonAnalyzing THEN "error" ELSE "fetch"]

\* analyzeScreenshot that opens the modal without resetting the result area
AnalyzeScreenshotKeepResult(c, imageDataUrl) ==
    /\ modalActive' = TRUE
    /\ buttonAnalyzing' = TRUE
    /\ previewArea' = c
    /\ resultArea' = resultArea
    /\ posts' = Append(posts, [cap |-> c, image |-> imageDataUrl])
    /\ capPc' = [capPc EXCEPT ![c] = "fetch"]

\* analyzeScreenshot(imageDataUrl), lines 235-262: up to the await of fetch
AnalyzeScreenshot(c, imageDataUrl) ==
    /\ modalActive' = TRUE
    /\ buttonAnalyzing' = TRUE
    /\ previewArea' = c
    /\ resultArea' = Spinner(c)
    /\ posts' = Append(posts, [cap |-> c, image |-> imageDataUrl])
    /\ capPc' = [capPc EXCEPT ![c] = "fetch"]

\* loadedmetadata fires: lines 214-223, the frame is drawn, the tracks are
\* stopped, the canvas is encoded and analyzeScreenshot is called
FrameGrabbed(c, img) ==
    /\ capPc[c] = "loadedmetadata"
    /\ capStream' = [capStream EXCEPT ![c] = "stopped"]
    /\ capImage' = [capImage EXCEPT ![c] = img]
    /\ AnalyzeScreenshot(c, img)
    /\ UNCHANGED <<hasDisplayMedia, capReject, capResp, capPrev, nCaps, timers, alertShown>>
    /\ UNCHANGED retryWindow
    /\ UNCHANGED voiceVars

\* lines 214-218 throw (getContext('2d') gave null): the catch block runs, the
\* tracks were not stopped
FrameFailed(c) ==
    /\ capPc[c] = "loadedmetadata"
    /\ capReject' = [capReject EXCEPT ![c] = "TypeError"]
    /\ CaptureCatch(c, "TypeError")
    /\ UNCHANGED <<hasDisplayMedia, modalActive, buttonAnalyzing, previewArea, resultArea,
                   capImage, capStream, capResp, capPrev, nCaps, posts, timers>>
    /\ UNCHANGED retryWindow
    /\ UNCHANGED voiceVars

\* the catch and finally blocks of analyzeScreenshot, lines 277-287
AnalyzeCatch(c, message) ==
    /\ resultArea' = [kind |-> "error", text |-> OrElse(message, AnalysisErrorDefault), cap |-> c]
    /\ buttonAnalyzing' = FALSE
    /\ capPc' = [capPc EXCEPT ![c] = "error"]

\* a handler that reads the body without testing response.ok
FetchResolvedIgnoresStatus(c, ok) ==
    /\ capPc[c] = "fetch"
    /\ capResp' = [capResp EXCEPT ![c] = IF ok THEN "ok" ELSE "http"]
    /\ capPc' = [capPc EXCEPT ![c] = "json"]
    /\ UNCHANGED <<resultArea, buttonAnalyzing>>
    /\ UNCHANGED <<hasDisplayMedia, modalActive, previewArea, capImage, capStream,
                   capReject, capPrev, nCaps, posts, timers, alertShown>>
    /\ retryWindow' = (retryWindow \/ ~ok)
    /\ UNCHANGED voiceVars

\* fetch resolves with a response: lines 264-268
FetchResolved(c, ok) ==
    /\ capPc[c] = "fetch"
    /\ capResp' = [capResp EXCEPT ![c] = IF ok THEN "ok" ELSE "http"]
    /\ IF ~ok
       THEN AnalyzeCatch(c, AnalysisFailedMsg)
       ELSE /\ capPc' = [capPc EXCEPT ![c] = "json"]
            /\ UNCHANGED <<resultArea, buttonAnalyzing>>
    /\ UNCHANGED <<hasDisplayMedia, modalActive, previewArea, capImage, capStream,
                   capReject, capPrev, nCaps, posts, timers, alertShown>>
    /\ retryWindow' = (retryWindow \/ ~ok)
    /\ UNCHANGED voiceVars

\* fetch rejects (network failure)
FetchRejected(c, message) ==
    /\ capPc[c] = "fetch"
    /\ capResp' = [capResp EXCEPT ![c] = "network"]
    /\ AnalyzeCatch(c, message)
    /\ UNCHANGED <<hasDisplayMedia, modalActive, previewArea, capImage, capStream,
                   capReject, capPrev, nCaps, posts, timers, alertShown>>
    /\ retryWindow' = TRUE
    /\ UNCHANGED voiceVars

\* a response handler that re-opens the modal to show its result
JsonResolvedReopens(c, analysis) ==
    /\ capPc[c] = "json"
    /\ resultArea' = [kind |-> "result", text |-> OrElse(analysis, AnalysisDefault), cap |-> c]
    /\ buttonAnalyzing' = FALSE
    /\ modalActive' = TRUE
    /\ capPc' = [capPc EXCEPT ![c] = "shown"]
    /\ UNCHANGED <<hasDisplayMedia, previewArea, capImage, capStream,
                   capReject, capResp, capPrev, nCaps, posts, timers, alertShown>>
    /\ UNCHANGED retryWindow
    /\ UNCHANGED voiceVars

\* response.json() resolves: lines 270-275, then finally
JsonResolved(c, analysis) ==
    /\ capPc[c] = "json"
    /\ resultArea' = [kind |-> "result", text |-> OrElse(analysis, AnalysisDefault), cap |-> c]
    /\ buttonAnalyzing' = FALSE
    /\ capPc' = [capPc EXCEPT ![c] = "shown"]
    /\ UNCHANGED <<hasDisplayMedia, modalActive, previewArea, capImage, capStream,
                   capReject, capResp, capPrev, nCaps, posts, timers, alertShown>>
    /\ UNCHANGED retryWindow
    /\ UNCHANGED voiceVars

\* response.json() rejects (the body is not JSON)
JsonRejected(c, message) ==
    /\ capPc[c] = "json"
    /\ AnalyzeCatch(c, message)
    /\ UNCHANGED <<hasDisplayMedia, modalActive, previewArea, capImage, capStream,
                   capReject, capResp, capPrev, nCaps, posts, timers, alertShown>>
    /\ UNCHANGED retryWindow
    /\ UNCHANGED voiceVars

\* closeModal(), lines 290-292
CloseModal ==
    /\ modalActive' = FALSE

\* the Close button of the modal
CloseClick ==
    /\ modalActive
    /\ CloseModal
    /\ UNCHANGED <<hasDisplayMedia, buttonAnalyzing, previewArea, resultArea, capPc,
                   capImage, capStream, capReject, capResp, capPrev, nCaps, posts, timers,
                   alertShown>>
    /\ UNCHANGED retryWindow
    /\ UNCHANGED voiceVars

\* retakeScreenshot(), lines 294-297: closeModal, then setTimeout(captureScreen, 300)
RetakeScreenshot ==
    /\ modalActive
    /\ nCaps + Len(timers) < MaxCaptures
    /\ CloseModal
    /\ timers' = Append(timers, [image |-> previewArea, result |-> resultArea,
                                 shown |-> resultArea.kind = "result"])
    /\ UNCHANGED <<hasDisplayMedia, buttonAnalyzing, previewArea, resultArea, capPc,
                   capImage, capStream, capReject, capResp, capPrev, nCaps, posts, alertShown>>
    /\ retryWindow' = FALSE
    /\ UNCHANGED voiceVars

\* the timer of retakeScreenshot expires: captureScreen()
RetakeTimerFired ==
    /\ timers # <<>>
    /\ CaptureScreen(nCaps + 1, Head(timers))
    /\ timers' = Tail(timers)
    /\ UNCHANGED retryWindow
    /\ UNCHANGED voiceVars

CaptureNext ==
    \/ ButtonClick
    \/ KeyboardShortcut
    \/ \E c \in Captures : StreamGranted(c)
    \/ \E c \in Captures, e \in {"NotAllowedError", "NotFoundError"} : StreamRejected(c, e)
    \/ \E c \in Captures, img \in Images : FrameGrabbed(c, img)
    \/ \E c \in Captures : FrameFailed(c)
    \/ \E c \in Captures, ok \in BOOLEAN : FetchResolved(c, ok)
    \/ \E c \in Captures, m \in RejectMessages : FetchRejected(c, m)
    \/ \E c \in Captures, a \in AnalysisFields : JsonResolved(c, a)
    \/ \E c \in Captures, m \in RejectMessages : JsonRejected(c, m)
    \/ CloseClick
    \/ RetakeScreenshot
    \/ RetakeTimerFired

(***************************************************************************)
(* The state of one capture cycle, in the words of the specification.      *)
(***************************************************************************)
CycleState(c) ==
    CASE capPc[c] = "unused" -> "Idle"
      [] capPc[c] \in {"getDisplayMedia", "loadedmetadata"} -> "Capturing"
      [] capPc[c] \in {"fetch", "json"} -> "Analyzing"
      [] capPc[c] = "shown" -> "ResultShown"
      [] OTHER -> "Error"

PostsOf(c) == {i \in DOMAIN posts : posts[i].cap = c}

\* the POSTs issued so far are those of the captures that succeeded, one each
C1_PostsMatchCaptures ==
    /\ \A c \in Captures :
          Cardinality(PostsOf(c)) = IF capImage[c] # 0 THEN 1 ELSE 0
    /\ \A i \in DOMAIN posts : posts[i].image = capImage[posts[i].cap]

(***************************************************************************)
(* C1: every capture that succeeds (stream granted, frame encoded) issues  *)
(* exactly one POST to the analysis endpoint, in the step that encodes the *)
(* frame and with the image of that capture; a capture that has not        *)
(* succeeded has issued none.                                              *)
(***************************************************************************)
C1_OnePostPerCapture ==
    /\ []C1_PostsMatchCaptures
    /\ [][\A c \in Captures :
             (capImage[c] = 0 /\ capImage'[c] # 0)
                => posts' = Append(posts, [cap |-> c, image |-> capImage'[c]])]_vars

\* two captures succeeded with different images, the second started by a retake,
\* the first closed in between
C1_Witness ==
    /\ Len(posts) = 2
    /\ posts[1].image # posts[2].image
    /\ capPrev[2] # NoPrev
    /\ \E c \in Captures : capPc[c] \in {"fetch", "json"}

(***************************************************************************)
(* C8: when the platform denies the screen-capture permission, the cycle   *)
(* goes to Error (the denial message is surfaced) and no request is sent   *)
(* to the analysis endpoint for it.                                        *)
(***************************************************************************)
C8_DeniedNoRequest ==
    /\ [](\A c \in Captures :
            capReject[c] = "NotAllowedError"
               => CycleState(c) = "Error" /\ capPc[c] = "denied" /\ PostsOf(c) = {})
    /\ [][\A c \in Captures :
             (capReject[c] = "none" /\ capReject'[c] = "NotAllowedError")
                => alertShown' = AlertDenied /\ posts' = posts]_vars

\* a capture was denied after an earlier one had been analysed
C8_Witness ==
    /\ capReject[2] = "NotAllowedError"
    /\ capPc[2] = "denied"
    /\ alertShown = AlertDenied
    /\ capPc[1] = "shown"

\* the modal is open on a result
ResultShown == modalActive /\ resultArea.kind = "result"

\* cycle c was started by a retake clicked while a result was shown
RetakenFromResult(c) == capPc[c] # "unused" /\ capPrev[c].shown

\* while the modal is open, it shows neither the image nor the result that a
\* retake from a shown result left behind
C9_PreviousDiscarded ==
    \A c \in Captures :
        (RetakenFromResult(c) /\ modalActive)
            => /\ previewArea # capPrev[c].image
               /\ resultArea.cap # capPrev[c].result.cap

(***************************************************************************)
(* C9: a retake clicked while a result is shown closes the modal in that   *)
(* step and starts no capture in it (the capture starts when the timer     *)
(* expires); once the cycle the retake started has begun, the modal never  *)
(* shows the previous image or the previous result again.                  *)
(***************************************************************************)
C9_RetakeClosesThenRecaptures ==
    /\ []C9_PreviousDiscarded
    /\ [][(ResultShown /\ Len(timers') = Len(timers) + 1)
             => /\ ~modalActive'
                /\ nCaps' = nCaps
                /\ capPc' = capPc
                /\ posts' = posts]_vars
    /\ [][\A c \in Captures :
             (capPc[c] = "unused" /\ capPc'[c] # "unused" /\ capPrev'[c] # NoPrev)
                => timers # <<>> /\ timers' = Tail(timers)]_vars

\* the cycle started by a retake from a shown result has its own result on display
C9_Witness ==
    /\ RetakenFromResult(2)
    /\ capPrev[2].result.cap = 1
    /\ modalActive
    /\ resultArea = [kind |-> "result", text |-> AnalysisDefault, cap |-> 2]
    /\ previewArea = 2

\* the analysis request of cycle c is issued and not settled
InFlight(c) == capPc[c] \in {"fetch", "json"}

(***************************************************************************)
(* C12: closing the modal while an analysis request is in flight leaves    *)
(* the request in flight; when the request settles while the modal is      *)
(* closed, its result or its error is written to the result area and the   *)
(* modal stays closed.                                                     *)
(***************************************************************************)
C12_CloseKeepsRequest ==
    /\ [][(modalActive /\ ~modalActive') => capPc' = capPc /\ posts' = posts]_vars
    /\ [][\A c \in Captures :
             (~modalActive /\ InFlight(c) /\ ~InFlight(c)')
                => /\ ~modalActive'
                   /\ resultArea'.cap = c
                   /\ \/ capPc'[c] = "shown" /\ resultArea'.kind = "result"
                      \/ capPc'[c] = "error" /\ resultArea'.kind = "error"]_vars

\* the modal was closed on the spinner of a request whose body is still awaited
C12_Witness ==
    /\ ~modalActive
    /\ capPc[1] = "json"
    /\ resultArea = Spinner(1)
    /\ timers = <<>>

\* the analysis request of cycle c failed on the network or came back with a
\* non-success status
AnalysisFailed(c) == capResp[c] \in {"network", "http"}

\* the step that learns of the failure of a request puts its cycle in Error and
\* writes the failure message to the result area
C14_FailureShown ==
    \A c \in Captures :
        (~AnalysisFailed(c) /\ AnalysisFailed(c)')
            => /\ capPc'[c] = "error"
               /\ resultArea'.kind = "error"
               /\ resultArea'.cap = c
               /\ resultArea'.text \in {AnalysisFailedMsg, AnalysisErrorDefault}
                                         \cup (RejectMessages \ {""})
               /\ capResp'[c] = "http" => resultArea'.text = AnalysisFailedMsg
               /\ ~buttonAnalyzing'
               /\ posts' = posts

(***************************************************************************)
(* C14, as stated: when the analysis request fails on the network or       *)
(* returns a non-success status, the widget goes to Error and shows the    *)
(* failure message, and no analysis request is issued from then on until   *)
(* the user asks for a capture (button, shortcut or retake).               *)
(***************************************************************************)
C14_NoRequestUntilTrigger ==
    /\ [][C14_FailureShown]_vars
    /\ [](\A c \in Captures : AnalysisFailed(c) => CycleState(c) = "Error")
    /\ [][retryWindow => posts' = posts]_vars

(***************************************************************************)
(* C14, amended: when the analysis request of a cycle fails on the network *)
(* or returns a non-success status, the step that learns it puts the cycle *)
(* in Error, writes the failure message to the result area and issues no   *)
(* request; the failed cycle stays in Error with its one request, and      *)
(* every request issued afterwards is the first request of another capture *)
(* cycle, which the user may have asked for before the failure.            *)
(***************************************************************************)
C14_FailureNoRetry ==
    /\ [][C14_FailureShown]_vars
    /\ [](\A c \in Captures :
            AnalysisFailed(c) => CycleState(c) = "Error" /\ Cardinality(PostsOf(c)) = 1)
    /\ [][\A c \in Captures :
             (AnalysisFailed(c) /\ posts' # posts)
                => \E c2 \in Captures \ {c} :
                      /\ capPc[c2] = "loadedmetadata"
                      /\ PostsOf(c2) = {}
                      /\ posts' = Append(posts, [cap |-> c2, image |-> capImage'[c2]])]_vars

\* the request of the second capture came back with a non-success status; the
\* first capture, asked for earlier, has issued its request after that
C14_Witness ==
    /\ capResp[2] = "http"
    /\ capPc[2] = "error"
    /\ retryWindow
    /\ capPc[1] = "fetch"
    /\ resultArea = Spinner(1)

\* captureScreen() of cycle c has returned or thrown into its catch block
CaptureFinished(c) == capPc[c] \notin {"unused", "getDisplayMedia", "loadedmetadata"}

(***************************************************************************)
(* C15: the tracks of a granted stream are stopped in the step that grabs  *)
(* the frame, before the analysis request is issued, and no cycle whose    *)
(* capture has finished, with a frame or with an error, still holds a live *)
(* stream.                                                                 *)
(***************************************************************************)
C15_StreamReleased ==
    /\ [][\A c \in Captures :
             (PostsOf(c) = {} /\ PostsOf(c)' # {}) => capStream'[c] = "stopped"]_vars
    /\ [](\A c \in Captures : CaptureFinished(c) => capStream[c] # "live")

(***************************************************************************)
(* C18: a result or an error shown in the open modal belongs to the image  *)
(* shown in the preview, and a request that settles after a later capture  *)
(* has taken over the modal leaves the result area of that capture alone.  *)
(***************************************************************************)
C18_ResultMatchesPreview ==
    /\ []((modalActive /\ resultArea.kind \in {"result", "error"})
            => resultArea.cap = previewArea)
    /\ [][\A c \in Captures :
             (InFlight(c) /\ ~InFlight(c)' /\ previewArea # c)
                => resultArea' = resultArea]_vars

(***************************************************************************)
(* C19: the floating button carries the 'analyzing' mark in exactly the    *)
(* states where at least one analysis request is issued and not settled.   *)
(***************************************************************************)
C19_BusyIffInFlight == buttonAnalyzing <=> (\E c \in Captures : InFlight(c))

(***************************************************************************)
(* VoiceAssistant                                                         *)
(***************************************************************************)
NoResp == [status |-> "none", json |-> "none", response |-> <<>>]
StatusOf(kind) == [kind |-> kind, text |-> <<>>]

VoiceInit ==
    /\ hasRecognition \in BOOLEAN
    /\ eagerSpeaking \in BOOLEAN
    /\ isListening = FALSE
    /\ isSpeaking = FALSE
    /\ recState = "ended"
    /\ results = <<>>
    /\ statusClass = ""
    /\ statusText = StatusOf("initial")
    /\ startBtnDisabled = FALSE
    /\ stopBtnDisabled = TRUE
    /\ conversation = <<>>
    /\ chatPc = [r \in Chats |-> "unused"]
    /\ chatMessage = [r \in Chats |-> <<>>]
    /\ chatResp = [r \in Chats |-> NoResp]
    /\ chatReplies = [r \in Chats |-> <<>>]
    /\ chatSpoken = [r \in Chats |-> <<>>]
    /\ nChats = 0
    /\ synthQueue = <<>>
    /\ lastCmd = "none"
    /\ voiceAlert = "none"

\* String.prototype.trim on a token sequence
RECURSIVE TrimLeft(_)
TrimLeft(t) == IF t # <<>> /\ Head(t) = " " THEN TrimLeft(Tail(t)) ELSE t

RECURSIVE TrimRight(_)
TrimRight(t) ==
    IF t # <<>> /\ t[Len(t)] = " " THEN TrimRight(SubSeq(t, 1, Len(t) - 1)) ELSE t

Trim(t) == TrimRight(TrimLeft(t))

\* Array.from(event.results).map(result => result[0].transcript).join(''), lines 34-36
RECURSIVE JoinTranscripts(_)
JoinTranscripts(rs) ==
    IF rs = <<>> THEN <<>> ELSE Head(rs).transcript \o JoinTranscripts(Tail(rs))

\* `a || b` on texts
TextOrElse(a, b) == IF a = UndefinedText \/ a = <<>> THEN b ELSE a

\* recognition.start() on a session that has ended; on any other it throws
\* InvalidStateError
RecognitionCanStart(state) == state = "ended"

\* recognition.stop()
RecognitionStop(state) == IF state = "started" THEN "stopping" ELSE state

\* startListening(), lines 323-338
StartListening ==
    /\ lastCmd' = "start"
    /\ IF ~hasRecognition
       THEN /\ voiceAlert' = "Voice recognition is not supported in your browser."
            /\ UNCHANGED <<isListening, recState, results, statusClass, statusText,
                           startBtnDisabled, stopBtnDisabled>>
       ELSE /\ isListening' = TRUE
            /\ UNCHANGED voiceAlert
            /\ IF RecognitionCanStart(recState)
               THEN /\ recState' = "started"
                    /\ results' = <<>>
                    /\ statusClass' = "listening"
                    /\ statusText' = StatusOf("speakNow")
                    /\ startBtnDisabled' = TRUE
                    /\ stopBtnDisabled' = FALSE
               ELSE \* line 330 throws: the handler ends there
                    UNCHANGED <<recState, results, statusClass, statusText,
                                startBtnDisabled, stopBtnDisabled>>

\* the Start button, enabled unless disabled by line 336
StartClick ==
    /\ ~startBtnDisabled
    /\ StartListening
    /\ UNCHANGED <<hasRecognition, eagerSpeaking, isSpeaking, conversation, chatPc,
                   chatMessage, chatResp, chatReplies, chatSpoken, nChats, synthQueue>>
    /\ UNCHANGED capVars

\* stopListening that leaves the listening flag set
StopListeningKeepsFlag(state) ==
    /\ lastCmd' = "stop"
    /\ isListening' = isListening
    /\ recState' = IF hasRecognition THEN RecognitionStop(state) ELSE state
    /\ statusClass' = ""
    /\ statusText' = StatusOf("stopped")
    /\ startBtnDisabled' = FALSE
    /\ stopBtnDisabled' = TRUE

\* stopListening(), lines 340-352, the session being in state `state`
StopListening(state) ==
    /\ lastCmd' = "stop"
    /\ isListening' = FALSE
    /\ recState' = IF hasRecognition THEN RecognitionStop(state) ELSE state
    /\ statusClass' = ""
    /\ statusText' = StatusOf("stopped")
    /\ startBtnDisabled' = FALSE
    /\ stopBtnDisabled' = TRUE

\* a Stop button that also silences the assistant
StopClickCancelsSpeech ==
    /\ ~stopBtnDisabled
    /\ StopListening(recState)
    /\ synthQueue' = <<>>
    /\ isSpeaking' = FALSE
    /\ UNCHANGED <<hasRecognition, eagerSpeaking, results, conversation, chatPc,
                   chatMessage, chatResp, chatReplies, chatSpoken, nChats, voiceAlert>>
    /\ UNCHANGED capVars

\* the Stop button, disabled until line 337 enables it
StopClick ==
    /\ ~stopBtnDisabled
    /\ StopListening(recState)
    /\ UNCHANGED <<hasRecognition, eagerSpeaking, isSpeaking, results, conversation, chatPc,
                   chatMessage, chatResp, chatReplies, chatSpoken, nChats, synthQueue,
                   voiceAlert>>
    /\ UNCHANGED capVars

\* recognition.onerror, lines 45-48
RecError ==
    /\ recState \in {"started", "stopping"}
    /\ StopListening("errored")
    /\ UNCHANGED <<hasRecognition, eagerSpeaking, isSpeaking, results, conversation, chatPc,
                   chatMessage, chatResp, chatReplies, chatSpoken, nChats, synthQueue,
                   voiceAlert>>
    /\ UNCHANGED capVars

\* onend without the isListening test: every end restarts
OnEndAlwaysRestarts ==
    /\ recState' = "started"
    /\ results' = <<>>

\* onend that never restarts
OnEndNeverRestarts ==
    /\ recState' = "ended"
    /\ UNCHANGED results

\* recognition.onend, lines 50-54: the session has ended
OnEnd ==
    IF isListening
    THEN /\ recState' = "started"
         /\ results' = <<>>
    ELSE /\ recState' = "ended"
         /\ UNCHANGED results

\* the platform ends the session: after stop(), after an error, or on its own
RecEnd ==
    /\ recState \in {"started", "stopping", "errored"}
    /\ OnEnd
    /\ UNCHANGED <<hasRecognition, eagerSpeaking, isListening, isSpeaking, statusClass,
                   statusText, startBtnDisabled, stopBtnDisabled, conversation, chatPc,
                   chatMessage, chatResp, chatReplies, chatSpoken, nChats, synthQueue,
                   lastCmd, voiceAlert>>
    /\ UNCHANGED capVars

\* addMessage that puts the newest entry first
AddMessageUnshift(conv, type, text) == <<[role |-> type, content |-> text]>> \o conv

\* addMessage(type, text), lines 389-404
AddMessage(conv, type, text) == Append(conv, [role |-> type, content |-> text])

\* event.results after the platform reports one more result
NextResults(text, final) ==
    IF results # <<>> /\ ~results[Len(results)].isFinal
    THEN [results EXCEPT ![Len(results)] = [transcript |-> text, isFinal |-> final]]
    ELSE Append(results, [transcript |-> text, isFinal |-> final])

\* processVoiceCommand(transcript), lines 359-373: up to the await of fetch
ProcessVoiceCommand(transcript) ==
    LET trimmed == Trim(transcript) IN
    IF trimmed = <<>>
    THEN /\ statusText' = [kind |-> "transcript", text |-> transcript]
         /\ UNCHANGED <<statusClass, conversation, chatPc, chatMessage, nChats>>
    ELSE /\ nChats < MaxChats
         /\ conversation' = AddMessage(conversation, "user", trimmed)
         /\ statusClass' = "speaking"
         /\ statusText' = StatusOf("thinking")
         /\ nChats' = nChats + 1
         /\ chatPc' = [chatPc EXCEPT ![nChats + 1] = "fetch"]
         /\ chatMessage' = [chatMessage EXCEPT ![nChats + 1] = trimmed]

\* onresult without the isFinal test: every result is processed as a command
RecResultProcessesInterim(text, final) ==
    /\ recState \in {"started", "stopping"}
    /\ Len(NextResults(text, final)) <= MaxResults
    /\ results' = NextResults(text, final)
    /\ ProcessVoiceCommand(JoinTranscripts(results'))
    /\ UNCHANGED <<hasRecognition, eagerSpeaking, isListening, isSpeaking, recState,
                   startBtnDisabled, stopBtnDisabled, chatResp, chatReplies, chatSpoken,
                   synthQueue, lastCmd, voiceAlert>>
    /\ UNCHANGED capVars

\* recognition.onresult, lines 33-43
RecResult(text, final) ==
    /\ recState \in {"started", "stopping"}
    /\ Len(NextResults(text, final)) <= MaxResults
    /\ results' = NextResults(text, final)
    /\ LET transcript == JoinTranscripts(results') IN
       IF final
       THEN ProcessVoiceCommand(transcript)
       ELSE \* updateTranscript(transcript), lines 354-357
            /\ statusText' = [kind |-> "transcript", text |-> transcript]
            /\ UNCHANGED <<statusClass, conversation, chatPc, chatMessage, nChats>>
    /\ UNCHANGED <<hasRecognition, eagerSpeaking, isListening, isSpeaking, recState,
                   startBtnDisabled, stopBtnDisabled, chatResp, chatReplies, chatSpoken,
                   synthQueue, lastCmd, voiceAlert>>
    /\ UNCHANGED capVars

\* this.synthesis.speaking
SynthesisSpeaking ==
    synthQueue # <<>> /\ (Head(synthQueue).started \/ eagerSpeaking)

\* speak(text), lines 406-431. synthesis.cancel() empties the queue; the utterances
\* it removes fire 'error', for which the source sets no handler
Speak(text) ==
    /\ synthQueue' = Append(IF SynthesisSpeaking THEN <<>> ELSE synthQueue,
                            [text |-> text, started |-> FALSE])

\* a reply that is spoken without being added to the conversation
ReplyNotRecorded(r, text) ==
    /\ conversation' = conversation
    /\ chatReplies' = chatReplies
    /\ chatSpoken' = [chatSpoken EXCEPT ![r] = Append(@, text)]
    /\ Speak(text)
    /\ chatPc' = [chatPc EXCEPT ![r] = "done"]

\* lines 378-379 or 384-385 of call r: the reply is added and spoken
Reply(r, text) ==
    /\ conversation' = AddMessage(conversation, "ai", text)
    /\ chatReplies' = [chatReplies EXCEPT ![r] = Append(@, text)]
    /\ chatSpoken' = [chatSpoken EXCEPT ![r] = Append(@, text)]
    /\ Speak(text)
    /\ chatPc' = [chatPc EXCEPT ![r] = "done"]

\* fetch of call r rejects: the catch block, lines 381-386
ChatFetchRejected(r) ==
    /\ chatPc[r] = "fetch"
    /\ chatResp' = [chatResp EXCEPT ![r].status = "network"]
    /\ Reply(r, ErrorReply)
    /\ UNCHANGED <<hasRecognition, eagerSpeaking, isListening, isSpeaking, recState,
                   results, statusClass, statusText, startBtnDisabled, stopBtnDisabled,
                   chatMessage, nChats, lastCmd, voiceAlert>>
    /\ UNCHANGED capVars

\* fetch of call r resolves with a response of any status (line 375 reads no
\* status and awaits the body at once) and response.json() resolves: lines 376-379
ChatJsonResolved(r, ok, response) ==
    /\ chatPc[r] = "fetch"
    /\ chatResp' = [chatResp EXCEPT ![r] = [status |-> IF ok THEN "ok" ELSE "http",
                                            json |-> "parsed", response |-> response]]
    /\ Reply(r, TextOrElse(response, ReplyDefault))
    /\ UNCHANGED <<hasRecognition, eagerSpeaking, isListening, isSpeaking, recState,
                   results, statusClass, statusText, startBtnDisabled, stopBtnDisabled,
                   chatMessage, nChats, lastCmd, voiceAlert>>
    /\ UNCHANGED capVars

\* fetch of call r resolves and response.json() rejects: the catch block, lines 381-386
ChatJsonRejected(r, ok) ==
    /\ chatPc[r] = "fetch"
    /\ chatResp' = [chatResp EXCEPT ![r] = [status |-> IF ok THEN "ok" ELSE "http",
                                            json |-> "unparsable", response |-> <<>>]]
    /\ Reply(r, ErrorReply)
    /\ UNCHANGED <<hasRecognition, eagerSpeaking, isListening, isSpeaking, recState,
                   results, statusClass, statusText, startBtnDisabled, stopBtnDisabled,
                   chatMessage, nChats, lastCmd, voiceAlert>>
    /\ UNCHANGED capVars

\* utterance.onstart, lines 416-420
UtteranceStart ==
    /\ synthQueue # <<>>
    /\ ~Head(synthQueue).started
    /\ synthQueue' = [synthQueue EXCEPT ![1].started = TRUE]
    /\ isSpeaking' = TRUE
    /\ statusClass' = "speaking"
    /\ statusText' = StatusOf("speaking")
    /\ UNCHANGED <<hasRecognition, eagerSpeaking, isListening, recState, results,
                   startBtnDisabled, stopBtnDisabled, conversation, chatPc, chatMessage,
                   chatResp, chatReplies, chatSpoken, nChats, lastCmd, voiceAlert>>
    /\ UNCHANGED capVars

\* utterance.onend, lines 422-428
OnUtteranceEnd ==
    /\ isSpeaking' = FALSE
    /\ IF isListening
       THEN /\ statusClass' = "listening"
            /\ statusText' = StatusOf("listening")
       ELSE UNCHANGED <<statusClass, statusText>>

\* the utterance being spoken completes
UtteranceEnd ==
    /\ synthQueue # <<>>
    /\ Head(synthQueue).started
    /\ synthQueue' = Tail(synthQueue)
    /\ OnUtteranceEnd
    /\ UNCHANGED <<hasRecognition, eagerSpeaking, isListening, recState, results,
                   startBtnDisabled, stopBtnDisabled, conversation, chatPc, chatMessage,
                   chatResp, chatReplies, chatSpoken, nChats, lastCmd, voiceAlert>>
    /\ UNCHANGED capVars

VoiceNext ==
    \/ StartClick
    \/ StopClick
    \/ RecError
    \/ RecEnd
    \/ \E text \in InterimTexts : RecResult(text, FALSE)
    \/ \E text \in FinalTexts : RecResult(text, TRUE)
    \/ \E r \in Chats : ChatFetchRejected(r)
    \/ \E r \in Chats, ok \in BOOLEAN, response \in ResponseFields :
          ChatJsonResolved(r, ok, response)
    \/ \E r \in Chats, ok \in BOOLEAN : ChatJsonRejected(r, ok)
    \/ UtteranceStart
    \/ UtteranceEnd

(***************************************************************************)
(* Steps of recognition.onresult seen from outside: the platform reported  *)
(* a final result, whose own transcript is FinalText.                      *)
(***************************************************************************)
IsFinalResult ==
    /\ results' # results
    /\ results' # <<>>
    /\ results'[Len(results')].isFinal
    /\ \/ Len(results') = Len(results) + 1
       \/ Len(results') = Len(results) /\ ~results[Len(results)].isFinal

FinalText == results'[Len(results')].transcript

\* the request of call r failed: network, HTTP status or unparsable body
RequestFailed(r) ==
    \/ chatResp[r].status \in {"network", "http"}
    \/ chatResp[r].json = "unparsable"

(***************************************************************************)
(* C2: a final result whose own text is empty or whitespace-only appends   *)
(* no conversation entry and issues no chat request, whatever results the  *)
(* session delivered before.                                               *)
(***************************************************************************)
C2_BlankFinalIgnored ==
    [][(IsFinalResult /\ Trim(FinalText) = <<>>)
          => (conversation' = conversation /\ nChats' = nChats)]_vars

(***************************************************************************)
(* C3: at most one utterance is active or queued for playback at any time  *)
(* (a speak() that finds one first cancels it).                            *)
(***************************************************************************)
C3_AtMostOneUtterance == Len(synthQueue) <= 1

(***************************************************************************)
(* C4: after stopListening(), with no startListening() since, no step      *)
(* starts recognition other than an explicit startListening(): the 'end'   *)
(* event that follows the stop leaves the session ended.                   *)
(***************************************************************************)
C4_NoRestartAfterStop ==
    /\ [](lastCmd = "stop" => recState # "started")
    /\ [][(lastCmd = "stop" /\ recState' = "started") => lastCmd' = "start"]_vars
    /\ [][(lastCmd = "stop" /\ lastCmd' = "stop" /\ recState = "stopping"
             /\ recState' # "stopping")
            => recState' \in {"ended", "errored"}]_vars

\* stop was clicked in a running session that had produced a request, and the
\* session has ended
C4_Witness ==
    /\ lastCmd = "stop"
    /\ recState = "ended"
    /\ statusText = StatusOf("stopped")
    /\ nChats > 0

(***************************************************************************)
(* C5: a failed chat request (network failure, HTTP failure or unparsable  *)
(* body) adds exactly one assistant entry, the fixed error reply, and      *)
(* speaks exactly that, once.                                              *)
(***************************************************************************)
C5_FailureOneErrorReply ==
    \A r \in Chats :
        (chatPc[r] = "done" /\ RequestFailed(r))
            => chatReplies[r] = <<ErrorReply>> /\ chatSpoken[r] = <<ErrorReply>>

(***************************************************************************)
(* C6: a response with a non-2xx status is answered with the fixed error   *)
(* reply, whatever its body holds.                                         *)
(***************************************************************************)
C6_Non2xxIsFailure ==
    \A r \in Chats :
        (chatPc[r] = "done" /\ chatResp[r].status = "http")
            => /\ conversation # <<>>
               /\ \E i \in DOMAIN conversation :
                     conversation[i] = [role |-> "ai", content |-> ErrorReply]
               /\ chatSpoken[r] = <<ErrorReply>>

(***************************************************************************)
(* C7: every final result with non-empty trimmed text t, while listening,  *)
(* appends exactly the user entry t and sends exactly one POST with        *)
(* message t; a parsed reply with response text r adds exactly one         *)
(* assistant entry r and speaks r.                                         *)
(***************************************************************************)
C7_FinalResultRoundTrip ==
    /\ [][(IsFinalResult /\ isListening /\ Trim(FinalText) # <<>>)
            => /\ conversation' = Append(conversation,
                                         [role |-> "user", content |-> Trim(FinalText)])
               /\ nChats' = nChats + 1
               /\ chatPc'[nChats'] = "fetch"
               /\ chatMessage'[nChats'] = Trim(FinalText)]_vars
    /\ [](\A r \in Chats :
            (chatPc[r] = "done" /\ chatResp[r].status = "ok" /\ chatResp[r].json = "parsed"
               /\ chatResp[r].response # UndefinedText)
              => /\ chatReplies[r] = <<chatResp[r].response>>
                 /\ chatSpoken[r] = <<chatResp[r].response>>)

(***************************************************************************)
(* C10: while the listening flag is set the recognition session is never   *)
(* left ended: an 'end' event that arrives while it is set starts          *)
(* recognition again, and a session is eventually running again for as     *)
(* long as the flag stays set.                                             *)
(***************************************************************************)
C10_RestartWhileActive ==
    /\ [](isListening => recState # "ended")
    /\ [][(isListening /\ isListening' /\ recState \in {"stopping", "errored"}
             /\ recState' \notin {"stopping", "errored"})
            => recState' = "started"]_vars
    /\ (isListening ~> (recState = "started" \/ ~isListening))

\* the platform ended a session that had delivered a result while the widget was
\* listening, and recognition runs again
C10_Witness ==
    /\ isListening
    /\ lastCmd = "start"
    /\ recState = "started"
    /\ results = <<>>
    /\ statusText.kind \in {"transcript", "thinking"}

(***************************************************************************)
(* C11: a recognition error event clears the listening flag and shows the  *)
(* stopped status in the step that handles it, and the 'end' event that    *)
(* follows the error, with no startListening() in between, leaves the      *)
(* session ended.                                                          *)
(***************************************************************************)
C11_ErrorStops ==
    /\ [][(recState # "errored" /\ recState' = "errored")
            => /\ ~isListening'
               /\ statusClass' = ""
               /\ statusText' = StatusOf("stopped")
               /\ startBtnDisabled' = FALSE
               /\ stopBtnDisabled' = TRUE]_vars
    /\ [][(recState = "errored" /\ recState' # "errored" /\ lastCmd = "stop")
            => recState' = "ended" /\ ~isListening']_vars
    /\ [](recState = "errored" /\ lastCmd = "stop" => ~isListening)

\* an error arrived in a session that had produced a request; its 'end' event is
\* still to come
C11_Witness ==
    /\ recState = "errored"
    /\ lastCmd = "stop"
    /\ ~isListening
    /\ statusText = StatusOf("stopped")
    /\ nChats > 0

\* a step of stopListening(): called by the Stop button or by onerror
StopStep ==
    \/ lastCmd # "stop" /\ lastCmd' = "stop"
    \/ recState # "errored" /\ recState' = "errored"

\* the await of call r settles in this step
ChatSettles(r) == chatPc[r] = "fetch" /\ chatPc'[r] = "done"

(***************************************************************************)
(* C13: stopListening() clears the listening flag, shows the stopped       *)
(* status and leaves no session running, and it touches neither the chat   *)
(* requests in flight nor the utterance queue.  A request that settles     *)
(* after the stop appends exactly one assistant entry and passes its text  *)
(* to speak(); an utterance that is playing is removed only by its own     *)
(* 'end' event or by the speak() of a later reply.                         *)
(***************************************************************************)
C13_StopCancelsNothing ==
    /\ [][StopStep
            => /\ ~isListening'
               /\ statusText' = StatusOf("stopped")
               /\ recState' # "started"
               /\ chatPc' = chatPc
               /\ conversation' = conversation
               /\ synthQueue' = synthQueue
               /\ isSpeaking' = isSpeaking]_vars
    /\ [][\A r \in Chats :
             (lastCmd = "stop" /\ ChatSettles(r))
                => /\ Len(conversation') = Len(conversation) + 1
                   /\ SubSeq(conversation', 1, Len(conversation)) = conversation
                   /\ conversation'[Len(conversation')].role = "ai"
                   /\ chatSpoken'[r] = <<conversation'[Len(conversation')].content>>
                   /\ synthQueue'[Len(synthQueue')] =
                         [text |-> conversation'[Len(conversation')].content,
                          started |-> FALSE]]_vars
    /\ [][(lastCmd = "stop" /\ synthQueue # <<>> /\ Head(synthQueue).started
             /\ synthQueue' # synthQueue)
            => \/ synthQueue' = Tail(synthQueue) /\ ~isSpeaking'
               \/ \E r \in Chats : ChatSettles(r)]_vars

\* stop was called while the reply of one request was playing and a second
\* request was in flight
C13_Witness ==
    /\ lastCmd = "stop"
    /\ statusText = StatusOf("stopped")
    /\ chatPc[1] = "done"
    /\ chatPc[2] = "fetch"
    /\ synthQueue # <<>>
    /\ Head(synthQueue).started
    /\ isSpeaking

(***************************************************************************)
(* C16: the conversation is append-only: in every step the conversation    *)
(* before the step is a prefix of the conversation after it.               *)
(***************************************************************************)
C16_AppendOnly ==
    [][/\ Len(conversation') >= Len(conversation)
       /\ SubSeq(conversation', 1, Len(conversation)) = conversation]_vars

\* two exchanges are recorded, the first reply having arrived before the second
\* command
C16_Witness ==
    /\ Len(conversation) = 4
    /\ conversation[1].role = "user"
    /\ conversation[2].role = "ai"
    /\ conversation[3].role = "user"
    /\ conversation[4] = [role |-> "ai", content |-> ErrorReply]
    /\ ~isListening

\* the platform reported an interim result in this step
IsInterimResult ==
    /\ results' # results
    /\ results' # <<>>
    /\ ~results'[Len(results')].isFinal

(***************************************************************************)
(* C17: an interim recognition result changes only the text shown in the   *)
(* status line, which becomes the transcript; the listening and speaking   *)
(* flags, the status class, the buttons, the recognition session, the      *)
(* conversation, the chat requests and the utterance queue stay as they    *)
(* were.                                                                   *)
(***************************************************************************)
C17_InterimOnlyTranscript ==
    [][IsInterimResult
         => /\ statusText' = [kind |-> "transcript", text |-> JoinTranscripts(results')]
            /\ UNCHANGED <<isListening, isSpeaking, recState, statusClass,
                           startBtnDisabled, stopBtnDisabled, lastCmd>>
            /\ UNCHANGED <<conversation, chatPc, chatMessage, chatResp, chatReplies,
                           chatSpoken, nChats>>
            /\ UNCHANGED synthQueue]_vars

\* an interim result arrived while the reply to one command was being spoken and
\* the request of a second command was in flight
C17_Witness ==
    /\ results # <<>>
    /\ ~results[Len(results)].isFinal
    /\ statusText = [kind |-> "transcript", text |-> JoinTranscripts(results)]
    /\ chatPc[1] = "done"
    /\ chatPc[2] = "fetch"
    /\ synthQueue # <<>>
    /\ Head(synthQueue).started

(***************************************************************************)
(* C20: recognition.start() is invoked only on a session that has ended:   *)
(* a startListening() that reaches start() finds the session ended, and a  *)
(* session starts running only from there or from the restart of its own   *)
(* 'end' event.                                                            *)
(***************************************************************************)
C20_StartOnlyWhenEnded ==
    /\ [][(hasRecognition /\ lastCmd # "start" /\ lastCmd' = "start")
            => recState = "ended" /\ recState' = "started"]_vars
    /\ [][(recState # "started" /\ recState' = "started")
            => \/ recState = "ended" /\ lastCmd' = "start"
               \/ isListening /\ lastCmd' = lastCmd]_vars

\* the widget is stopped and nothing is pending: no request in flight, no
\* utterance queued or playing
QuietStopped ==
    /\ ~isListening
    /\ \A r \in Chats : chatPc[r] # "fetch"
    /\ synthQueue = <<>>

(***************************************************************************)
(* C21: the status line does not stay on the thinking or speaking caption: *)
(* whenever the widget is stopped with no request in flight and no         *)
(* utterance queued or playing, the status line shows neither, and an      *)
(* utterance that ends while the widget is listening sets the status line  *)
(* to the listening caption.                                               *)
(***************************************************************************)
C21_StatusNotStuck ==
    /\ [](QuietStopped
            => statusText.kind \notin {"thinking", "speaking"} /\ statusClass # "speaking")
    /\ [][(isListening /\ synthQueue # <<>> /\ Head(synthQueue).started
             /\ synthQueue' = Tail(synthQueue))
            => statusText' = StatusOf("listening") /\ statusClass' = "listening"]_vars

\* number of conversation entries of one role
NumEntries(role) ==
    Cardinality({i \in DOMAIN conversation : conversation[i].role = role})

\* number of chat requests issued and not settled
NumInFlight == Cardinality({r \in Chats : chatPc[r] = "fetch"})

(***************************************************************************)
(* C22: the conversation never holds more assistant entries than user      *)
(* entries: the assistant entries number the user entries less the chat    *)
(* requests in flight, and every request that settles, with a reply or     *)
(* with a failure, appends exactly one assistant entry.                    *)
(***************************************************************************)
C22_OneReplyPerRequest ==
    /\ [](/\ NumEntries("ai") <= NumEntries("user")
          /\ NumEntries("ai") = NumEntries("user") - NumInFlight
          /\ NumEntries("ai") + NumEntries("user") = Len(conversation))
    /\ [][\A r \in Chats :
             ChatSettles(r)
                => /\ Len(conversation') = Len(conversation) + 1
                   /\ SubSeq(conversation', 1, Len(conversation)) = conversation
                   /\ conversation'[Len(conversation')].role = "ai"
                   /\ chatReplies'[r] = <<conversation'[Len(conversation')].content>>]_vars

\* two commands were sent; the second request has failed and is answered, the
\* first is still in flight
C22_Witness ==
    /\ chatPc = <<"fetch", "done">>
    /\ RequestFailed(2)
    /\ NumEntries("user") = 2
    /\ conversation[3] = [role |-> "ai", content |-> ErrorReply]

\* the assistant entries of the conversation, in order
IsAiEntry(e) == e.role = "ai"
AiEntries == SelectSeq(conversation, IsAiEntry)

(***************************************************************************)
(* C23: the i-th assistant entry of the conversation is the reply to the   *)
(* i-th user entry, that is, the entry added by the i-th request, in       *)
(* whatever order the responses arrive.                                    *)
(***************************************************************************)
C23_RepliesInRequestOrder ==
    \A i \in 1..Len(AiEntries) :
        /\ chatPc[i] = "done"
        /\ chatReplies[i] = <<AiEntries[i].content>>

Init == CaptureInit /\ VoiceInit

\* each widget is checked on its own: the widgets share no state
CaptureSpecInit == Init /\ hasRecognition = TRUE /\ eagerSpeaking = TRUE

VoiceSpecInit == Init /\ hasDisplayMedia = TRUE

CaptureSpec == CaptureSpecInit /\ [][CaptureNext]_vars

VoiceSpec == VoiceSpecInit /\ [][VoiceNext]_vars

\* the platform delivers the 'end' event of a session that was stopped or failed
PendingEnd == recState \in {"stopping", "errored"} /\ RecEnd

VoiceFairSpec == VoiceSpecInit /\ [][VoiceNext]_vars /\ WF_vars(PendingEnd)
=============================================================================
